---- MODULE Spec2Model ----
(***************************************************************************)
(* Model of the App component of programming-principles (src/src/App.jsx). *)
(*                                                                         *)
(* State: the one piece of React state (activeSection), the two lists the  *)
(* component body builds on every render (principles, exercises), the      *)
(* rendered element tree (view), and the calls the page has made to        *)
(* window.open (opened).  lastEvent is a history variable: the last user   *)
(* event dispatched and the tab that was active when it was dispatched.    *)
(***************************************************************************)
EXTENDS Integers, Sequences, FiniteSets, TLC

VARIABLES activeSection, principles, exercises, view, opened, lastEvent

vars == <<activeSection, principles, exercises, view, opened, lastEvent>>

\* Bound on the number of window.open calls recorded in one behaviour.
MaxOpens == 3

----------------------------------------------------------------------------
(* Static data of the component body                                       *)

\* useState('overview')
InitialSection == "overview"

\* const principles = [...]   (the icon element is represented by its name)
principlesList ==
  << [id |-> "dry", name |-> "DRY", fullName |-> "Don't Repeat Yourself",
      icon |-> "Target", color |-> "bg-blue-500",
      description |-> "Avoid duplication of code, logic, or data. Every piece of knowledge should have a single, unambiguous representation.",
      benefits |-> <<"Maintainability", "Readability", "Reduced Bugs", "Faster Development">>],
     [id |-> "kiss", name |-> "KISS", fullName |-> "Keep It Simple, Stupid",
      icon |-> "Lightbulb", color |-> "bg-green-500",
      description |-> "Simplicity should be a key goal in design. Avoid unnecessary complexity and over-engineering.",
      benefits |-> <<"Readability", "Reduced Bugs", "Faster Development", "Easier Maintenance">>],
     [id |-> "srp", name |-> "SRP", fullName |-> "Single Responsibility Principle",
      icon |-> "Shield", color |-> "bg-purple-500",
      description |-> "A class should have only one reason to change. Each module should have responsibility over a single part of functionality.",
      benefits |-> <<"Modularity", "Maintainability", "Testability", "Clarity">>],
     [id |-> "solid", name |-> "SOLID", fullName |-> "SOLID Principles",
      icon |-> "Layers", color |-> "bg-orange-500",
      description |-> "Five design principles (SRP, OCP, LSP, ISP, DIP) that make software designs more understandable, flexible, and maintainable.",
      benefits |-> <<"Robustness", "Flexibility", "Maintainability", "Testability">>] >>

\* const exercises = [...]
exercisesList_solidTag ==
  << [principle |-> "DRY", title |-> "Data Validation", language |-> "Python",
      scenario |-> "User Registration and Profile Update", difficulty |-> "Beginner"],
     [principle |-> "DRY", title |-> "API Response Formatting", language |-> "Node.js/Next.js",
      scenario |-> "Consistent API Response Structure", difficulty |-> "Beginner"],
     [principle |-> "KISS", title |-> "Order Processing Logic", language |-> "Python",
      scenario |-> "Complex Discount Calculation", difficulty |-> "Intermediate"],
     [principle |-> "KISS", title |-> "Frontend Form Handling", language |-> "Node.js/Next.js",
      scenario |-> "Checkout Form Validation", difficulty |-> "Intermediate"],
     [principle |-> "SRP", title |-> "User Management", language |-> "Python",
      scenario |-> "Overloaded User Class", difficulty |-> "Intermediate"],
     [principle |-> "SOLID", title |-> "API Request Handling", language |-> "Node.js/Next.js",
      scenario |-> "Overloaded API Route Handler", difficulty |-> "Intermediate"] >>

\* const exercises = [...]
exercisesList ==
  << [principle |-> "DRY", title |-> "Data Validation", language |-> "Python",
      scenario |-> "User Registration and Profile Update", difficulty |-> "Beginner"],
     [principle |-> "DRY", title |-> "API Response Formatting", language |-> "Node.js/Next.js",
      scenario |-> "Consistent API Response Structure", difficulty |-> "Beginner"],
     [principle |-> "KISS", title |-> "Order Processing Logic", language |-> "Python",
      scenario |-> "Complex Discount Calculation", difficulty |-> "Intermediate"],
     [principle |-> "KISS", title |-> "Frontend Form Handling", language |-> "Node.js/Next.js",
      scenario |-> "Checkout Form Validation", difficulty |-> "Intermediate"],
     [principle |-> "SRP", title |-> "User Management", language |-> "Python",
      scenario |-> "Overloaded User Class", difficulty |-> "Intermediate"],
     [principle |-> "SRP", title |-> "API Request Handling", language |-> "Node.js/Next.js",
      scenario |-> "Overloaded API Route Handler", difficulty |-> "Intermediate"] >>

\* The two URL literals passed to window.open.
RepositoryUrl == "https://github.com/prabodh-dev1/programming-principles"

ReadmeUrl == "https://github.com/prabodh-dev1/programming-principles/blob/main/README.md"

\* The target literal passed to window.open.
BlankTarget == "_blank"

----------------------------------------------------------------------------
(* Buttons                                                                 *)

\* A button is identified by its name and, for the buttons created inside
\* exercises.map, by the 0-based index of its card (0 for the others).
Btn(name, index) == [name |-> name, index |-> index]

NoButton == Btn("none", 0)

\* <Button ... onClick={() => window.open(<repository>, '_blank')}>View Source
ViewSourceButton == Btn("View Source", 0)

\* <Button size="lg" onClick={() => setActiveSection('exercises')}>Start Exercises
StartExercisesButton == Btn("Start Exercises", 0)

\* <Button variant="ghost" ... onClick={() => window.open(<readme>, '_blank')}>
ExerciseLinkButton(index) == Btn("ExternalLink", index)

\* <Button variant="outline" ... onClick={() => window.open(<readme>, '_blank')}>View Full Document
ViewFullDocumentButton == Btn("View Full Document", 0)

\* <Button onClick={() => window.open(<repository>, '_blank')}>Download Examples
DownloadExamplesButton == Btn("Download Examples", 0)

----------------------------------------------------------------------------
(* Rendering                                                               *)

\* <TabsTrigger value=...>label</TabsTrigger>, in document order.  No trigger
\* is given the disabled prop.
TabsTriggerList_disabled ==
  << [value |-> "overview",   label |-> "Overview",   disabled |-> FALSE],
     [value |-> "principles", label |-> "Principles", disabled |-> FALSE],
     [value |-> "exercises",  label |-> "Exercises",  disabled |-> FALSE],
     [value |-> "resources",  label |-> "Resources",  disabled |-> TRUE] >>

TabsTriggerList ==
  << [value |-> "overview",   label |-> "Overview",   disabled |-> FALSE],
     [value |-> "principles", label |-> "Principles", disabled |-> FALSE],
     [value |-> "exercises",  label |-> "Exercises",  disabled |-> FALSE],
     [value |-> "resources",  label |-> "Resources",  disabled |-> FALSE] >>

TabIds == { TabsTriggerList[i].value : i \in DOMAIN TabsTriggerList }

\* The value attribute of the four <TabsContent> elements, in document order.
TabsContentValue_dup == <<"overview", "principles", "exercises", "exercises">>

TabsContentValue == <<"overview", "principles", "exercises", "resources">>

\* Tabs component: a TabsContent is mounted iff its value is the Tabs value.
TabsContentMounted(value, active) == value = active

\* Tabs component: the trigger whose value is the Tabs value is the active one;
\* a trigger is disabled iff it is given the disabled prop.
TabsTriggerView(t, active) ==
  [value |-> t.value, label |-> t.label,
   state |-> IF t.value = active THEN "active" ELSE "inactive",
   disabled |-> t.disabled]

\* principle.benefits.map((benefit) => <Badge ...>{benefit}</Badge>)
BenefitBadges_reversed(p) ==
  [i \in DOMAIN p.benefits |-> p.benefits[Len(p.benefits) + 1 - i]]

BenefitBadges(p) == [i \in DOMAIN p.benefits |-> p.benefits[i]]

\* The literal text of every Overview card: <p ...>Key Benefits:</p>
OverviewCardLabels == <<"Key Benefits:">>

\* The literal headings of every Principles card.
PrincipleCardLabels == <<"Key Benefits", "E-commerce Applications">>

\* The first two characters of every <li> under 'E-commerce Applications':
\* the bullet character U+2022 and a space, as their code points (the strings
\* of the model are ASCII).
BulletPrefix == <<8226, 32>>

\* The literal list items under 'E-commerce Applications' in every Principles
\* card.  The text of an item is the characters of prefix followed by text:
\* <li>(U+2022) User management systems</li> and so on.
PrincipleCardApplications ==
  << [prefix |-> BulletPrefix, text |-> "User management systems"],
     [prefix |-> BulletPrefix, text |-> "Product catalog handling"],
     [prefix |-> BulletPrefix, text |-> "Order processing workflows"],
     [prefix |-> BulletPrefix, text |-> "Payment gateway integration"] >>

\* Overview tab: principles.map((principle) => <Card key={principle.id}> ...)
OverviewCard_swapped(p) ==
  [key |-> p.id, color |-> p.color, icon |-> p.icon,
   title |-> p.fullName, description |-> p.name,
   text |-> p.description, labels |-> OverviewCardLabels,
   benefits |-> BenefitBadges(p)]

OverviewCard(p) ==
  [key |-> p.id, color |-> p.color, icon |-> p.icon,
   title |-> p.name, description |-> p.fullName,
   text |-> p.description, labels |-> OverviewCardLabels,
   benefits |-> BenefitBadges(p)]

\* Principles tab: principles.map((principle, index) => <Card key={principle.id}> ...)
\* index is the 0-based array index.
PrincipleCard_zeroBased(p, index) ==
  [key |-> p.id, color |-> p.color, icon |-> p.icon,
   title |-> p.fullName \o " (" \o p.name \o ")",
   description |-> "Essential principle #" \o ToString(index),
   text |-> p.description, labels |-> PrincipleCardLabels,
   benefits |-> BenefitBadges(p), applications |-> PrincipleCardApplications]

PrincipleCard(p, index) ==
  [key |-> p.id, color |-> p.color, icon |-> p.icon,
   title |-> p.fullName \o " (" \o p.name \o ")",
   description |-> "Essential principle #" \o ToString(index + 1),
   text |-> p.description, labels |-> PrincipleCardLabels,
   benefits |-> BenefitBadges(p), applications |-> PrincipleCardApplications]

\* variant={exercise.difficulty === 'Beginner' ? 'default' : 'destructive'}
DifficultyVariant_notIntermediate(difficulty) ==
  IF difficulty = "Intermediate" THEN "destructive" ELSE "default"

DifficultyVariant(difficulty) ==
  IF difficulty = "Beginner" THEN "default" ELSE "destructive"

\* Exercises tab: exercises.map((exercise, index) => <Card key={index}> ...)
ExerciseCard_swapped(e, index) ==
  [key |-> index,
   badges |-> << [variant |-> "outline",   text |-> e.principle],
                 [variant |-> "secondary", text |-> e.difficulty],
                 [variant |-> DifficultyVariant(e.difficulty), text |-> e.language] >>,
   button |-> ExerciseLinkButton(index),
   title |-> e.title, text |-> e.scenario]

ExerciseCard(e, index) ==
  [key |-> index,
   badges |-> << [variant |-> "outline",   text |-> e.principle],
                 [variant |-> "secondary", text |-> e.language],
                 [variant |-> DifficultyVariant(e.difficulty), text |-> e.difficulty] >>,
   button |-> ExerciseLinkButton(index),
   title |-> e.title, text |-> e.scenario]

OverviewCards_firstThree(ps) == [i \in 1..3 |-> OverviewCard(ps[i])]

OverviewCards(ps) == [i \in DOMAIN ps |-> OverviewCard(ps[i])]

PrincipleCards(ps) == [i \in DOMAIN ps |-> PrincipleCard(ps[i], i - 1)]

ExerciseCards(es) == [i \in DOMAIN es |-> ExerciseCard(es[i], i - 1)]

\* The cards of the Resources tab are literal markup.
ResourceCards ==
  << [title |-> "Recommended Reading",
      items |-> <<"Clean Code", "The Pragmatic Programmer", "Design Patterns">>],
     [title |-> "Tools & Frameworks",
      items |-> <<"ESLint", "Prettier", "SonarQube">>],
     [title |-> "About This Project",
      items |-> <<"Open Source", "Educational">>] >>

\* The literal card that closes the Overview tab.
OverviewCallToAction ==
  [title   |-> "Ready to Start Learning?",
   text    |-> "Explore interactive exercises with real-world e-commerce scenarios",
   buttons |-> <<StartExercisesButton>>]

\* The literal card that closes the Exercises tab.
ExercisesCallToAction ==
  [title   |-> "Complete Exercise Collection",
   text    |-> "Access the full document with detailed explanations, code examples, and solutions",
   buttons |-> <<ViewFullDocumentButton, DownloadExamplesButton>>]

\* The children of the four <TabsContent> elements, in document order: the
\* heading, the cards rendered from a list (or literal, for Resources), the
\* literal call-to-action card if there is one, and the buttons each of them
\* contains.
TabsContentChildren(ps, es) ==
  << [heading |-> "Master Programming Principles",
      cards   |-> OverviewCards(ps),
      callToAction |-> <<OverviewCallToAction>>,
      buttons |-> OverviewCallToAction.buttons],
     [heading |-> "Programming Principles",
      cards   |-> PrincipleCards(ps),
      callToAction |-> <<>>,
      buttons |-> <<>>],
     [heading |-> "Interactive Exercises",
      cards   |-> ExerciseCards(es),
      callToAction |-> <<ExercisesCallToAction>>,
      buttons |-> [i \in DOMAIN es |-> ExerciseLinkButton(i - 1)]
                    \o ExercisesCallToAction.buttons],
     [heading |-> "Additional Resources",
      cards   |-> ResourceCards,
      callToAction |-> <<>>,
      buttons |-> <<>>] >>

\* One <TabsContent value=...> element with its children.
TabsContentView(i, ps, es) ==
  [value   |-> TabsContentValue[i],
   heading |-> TabsContentChildren(ps, es)[i].heading,
   cards   |-> TabsContentChildren(ps, es)[i].cards,
   callToAction |-> TabsContentChildren(ps, es)[i].callToAction,
   buttons |-> TabsContentChildren(ps, es)[i].buttons]

RECURSIVE MountedPanels(_, _, _, _)
\* The TabsContent elements i..4 that are mounted, in document order.
MountedPanels(i, active, ps, es) ==
  IF i > Len(TabsContentValue) THEN <<>>
  ELSE (IF TabsContentMounted(TabsContentValue[i], active)
          THEN <<TabsContentView(i, ps, es)>> ELSE <<>>)
       \o MountedPanels(i + 1, active, ps, es)

\* The element tree App() returns for a given activeSection.
Render(active, ps, es) ==
  [header   |-> [title |-> "Programming Principles", buttons |-> <<ViewSourceButton>>],
   triggers |-> [i \in DOMAIN TabsTriggerList |-> TabsTriggerView(TabsTriggerList[i], active)],
   panels   |-> MountedPanels(1, active, ps, es)]

RECURSIVE PanelButtons(_)
PanelButtons(panels) ==
  IF panels = <<>> THEN {}
  ELSE { Head(panels).buttons[i] : i \in DOMAIN Head(panels).buttons }
         \cup PanelButtons(Tail(panels))

\* The buttons present in a rendered tree: only these can be clicked.
Buttons(v) ==
  { v.header.buttons[i] : i \in DOMAIN v.header.buttons } \cup PanelButtons(v.panels)

----------------------------------------------------------------------------
(* Events                                                                  *)

\* lastTarget is the value the most recent tab-changing event since the last
\* load asked for (a trigger's value, 'exercises' for Start Exercises), "none"
\* if there has been no such event.
Event(kind, tab, button) ==
  [kind |-> kind, tab |-> tab, button |-> button, from |-> activeSection,
   lastTarget |-> CASE kind = "select" -> tab
                    [] kind = "reload" -> "none"
                    [] kind = "click" /\ button = StartExercisesButton -> "exercises"
                    [] OTHER -> lastEvent.lastTarget]

\* The page is loaded: App is mounted, useState('overview') initialises the
\* state and the component renders.
Init ==
  /\ activeSection = InitialSection
  /\ principles = principlesList
  /\ exercises = exercisesList
  /\ view = Render(InitialSection, principlesList, exercisesList)
  /\ opened = <<>>
  /\ lastEvent = [kind |-> "load", tab |-> "none", button |-> NoButton, from |-> "none",
                  lastTarget |-> "none"]

\* setActiveSection(value) followed by the re-render it schedules: the
\* component body runs again, rebuilding both lists and the element tree.
SetActiveSection_reverses(value) ==
  /\ activeSection' = value
  /\ principles' = [i \in DOMAIN principles |-> principles[Len(principles) + 1 - i]]
  /\ exercises' = exercisesList
  /\ view' = Render(value, principles', exercisesList)

SetActiveSection_stale(value) ==
  /\ activeSection' = value
  /\ principles' = principlesList
  /\ exercises' = exercisesList
  /\ view' = Render(activeSection, principlesList, exercisesList)

SetActiveSection(value) ==
  /\ activeSection' = value
  /\ principles' = principlesList
  /\ exercises' = exercisesList
  /\ view' = Render(value, principlesList, exercisesList)

\* window.open(url, target): the call is recorded together with what the
\* browser returned (a window, or null when the pop-up is blocked); the
\* return value is discarded and no state is set, so nothing re-renders.
WindowOpen_retry(url, target) ==
  /\ Len(opened) < MaxOpens
  /\ \E returned \in {"window", "null"} :
        opened' = IF returned = "null"
                    THEN opened \o << [url |-> url, target |-> target, returned |-> "null"],
                                      [url |-> url, target |-> target, returned |-> "null"] >>
                    ELSE Append(opened, [url |-> url, target |-> target, returned |-> returned])
  /\ UNCHANGED <<activeSection, principles, exercises, view>>

WindowOpen(url, target) ==
  /\ Len(opened) < MaxOpens
  /\ \E returned \in {"window", "null"} :
        opened' = Append(opened, [url |-> url, target |-> target, returned |-> returned])
  /\ UNCHANGED <<activeSection, principles, exercises, view>>

\* <Tabs value={activeSection} onValueChange={setActiveSection}>: the user
\* activates the trigger with the given value.
SelectTab_adjacent(value) ==
  /\ \E i, j \in DOMAIN view.triggers :
        /\ view.triggers[i].value = value /\ ~view.triggers[i].disabled
        /\ view.triggers[j].value = activeSection
        /\ i - j \in {-1, 0, 1}
  /\ SetActiveSection(value)
  /\ lastEvent' = Event("select", value, NoButton)
  /\ UNCHANGED opened

SelectTab_opens(value) ==
  /\ \E i \in DOMAIN view.triggers :
        view.triggers[i].value = value /\ ~view.triggers[i].disabled
  /\ SetActiveSection(value)
  /\ lastEvent' = Event("select", value, NoButton)
  /\ IF value = "resources" /\ Len(opened) < MaxOpens
       THEN opened' = Append(opened, [url |-> RepositoryUrl, target |-> BlankTarget,
                                      returned |-> "window"])
       ELSE UNCHANGED opened

SelectTab_toggle(value) ==
  /\ \E i \in DOMAIN view.triggers :
        view.triggers[i].value = value /\ ~view.triggers[i].disabled
  /\ SetActiveSection(IF value = activeSection THEN InitialSection ELSE value)
  /\ lastEvent' = Event("select", value, NoButton)
  /\ UNCHANGED opened

SelectTab_collapsible(value) ==
  /\ \E i \in DOMAIN view.triggers :
        view.triggers[i].value = value /\ ~view.triggers[i].disabled
  /\ SetActiveSection(IF value = activeSection THEN "" ELSE value)
  /\ lastEvent' = Event("select", value, NoButton)
  /\ UNCHANGED opened

SelectTab(value) ==
  /\ \E i \in DOMAIN view.triggers :
        view.triggers[i].value = value /\ ~view.triggers[i].disabled
  /\ SetActiveSection(value)
  /\ lastEvent' = Event("select", value, NoButton)
  /\ UNCHANGED opened

\* onClick={() => setActiveSection('exercises')}
StartExercises_principles ==
  /\ StartExercisesButton \in Buttons(view)
  /\ SetActiveSection("principles")
  /\ lastEvent' = Event("click", "none", StartExercisesButton)
  /\ UNCHANGED opened

StartExercises_typo ==
  /\ StartExercisesButton \in Buttons(view)
  /\ SetActiveSection("exercise")
  /\ lastEvent' = Event("click", "none", StartExercisesButton)
  /\ UNCHANGED opened

StartExercises_unguarded ==
  /\ SetActiveSection("exercises")
  /\ lastEvent' = Event("click", "none", StartExercisesButton)
  /\ UNCHANGED opened

StartExercises ==
  /\ StartExercisesButton \in Buttons(view)
  /\ SetActiveSection("exercises")
  /\ lastEvent' = Event("click", "none", StartExercisesButton)
  /\ UNCHANGED opened

\* Header button: onClick={() => window.open(<repository>, '_blank')}
ViewSource_resets ==
  /\ ViewSourceButton \in Buttons(view)
  /\ Len(opened) < MaxOpens
  /\ \E returned \in {"window", "null"} :
        opened' = Append(opened, [url |-> RepositoryUrl, target |-> BlankTarget,
                                  returned |-> returned])
  /\ SetActiveSection("overview")
  /\ lastEvent' = Event("click", "none", ViewSourceButton)

ViewSource ==
  /\ ViewSourceButton \in Buttons(view)
  /\ WindowOpen(RepositoryUrl, BlankTarget)
  /\ lastEvent' = Event("click", "none", ViewSourceButton)

\* Per-exercise button: onClick={() => window.open(<readme>, '_blank')}
ExerciseLink_unguarded(index) ==
  /\ WindowOpen(ReadmeUrl, BlankTarget)
  /\ lastEvent' = Event("click", "none", ExerciseLinkButton(index))

ExerciseLink_perExercise(index) ==
  /\ ExerciseLinkButton(index) \in Buttons(view)
  /\ WindowOpen(ReadmeUrl \o "#exercise-" \o ToString(index + 1), BlankTarget)
  /\ lastEvent' = Event("click", "none", ExerciseLinkButton(index))

ExerciseLink(index) ==
  /\ ExerciseLinkButton(index) \in Buttons(view)
  /\ WindowOpen(ReadmeUrl, BlankTarget)
  /\ lastEvent' = Event("click", "none", ExerciseLinkButton(index))

\* onClick={() => window.open(<readme>, '_blank')}
ViewFullDocument_self ==
  /\ ViewFullDocumentButton \in Buttons(view)
  /\ WindowOpen(ReadmeUrl, "_self")
  /\ lastEvent' = Event("click", "none", ViewFullDocumentButton)

ViewFullDocument ==
  /\ ViewFullDocumentButton \in Buttons(view)
  /\ WindowOpen(ReadmeUrl, BlankTarget)
  /\ lastEvent' = Event("click", "none", ViewFullDocumentButton)

\* onClick={() => window.open(<repository>, '_blank')}
DownloadExamples_readme ==
  /\ DownloadExamplesButton \in Buttons(view)
  /\ WindowOpen(ReadmeUrl, BlankTarget)
  /\ lastEvent' = Event("click", "none", DownloadExamplesButton)

DownloadExamples ==
  /\ DownloadExamplesButton \in Buttons(view)
  /\ WindowOpen(RepositoryUrl, BlankTarget)
  /\ lastEvent' = Event("click", "none", DownloadExamplesButton)

\* The page is reloaded: the component is mounted afresh, so the state is
\* initialised by useState('overview') again.  The browsing contexts opened
\* earlier belong to the browser and stay.
Reload_persist ==
  /\ activeSection' = activeSection
  /\ principles' = principlesList
  /\ exercises' = exercisesList
  /\ view' = Render(activeSection, principlesList, exercisesList)
  /\ lastEvent' = Event("reload", "none", NoButton)
  /\ UNCHANGED opened

Reload ==
  /\ activeSection' = InitialSection
  /\ principles' = principlesList
  /\ exercises' = exercisesList
  /\ view' = Render(InitialSection, principlesList, exercisesList)
  /\ lastEvent' = Event("reload", "none", NoButton)
  /\ UNCHANGED opened

Next ==
  \/ \E value \in TabIds : SelectTab(value)
  \/ StartExercises
  \/ ViewSource
  \/ \E index \in 0..(Len(exercises) - 1) : ExerciseLink(index)
  \/ ViewFullDocument
  \/ DownloadExamples
  \/ Reload

Spec == Init /\ [][Next]_vars

----------------------------------------------------------------------------
(* Properties                                                              *)

\* C1: after a tab is selected exactly one content view is mounted, the one
\* whose value is the selected identifier, and none of the other three is;
\* in every reachable state exactly one of the four views is visible.
C1_ExactlyOneViewVisible ==
  /\ Len(view.panels) = 1
  /\ view.panels[1].value = activeSection
  /\ \A t \in {"overview", "principles", "exercises", "resources"} \ {activeSection} :
        \A i \in DOMAIN view.panels : view.panels[i].value # t
  /\ lastEvent.kind = "select" => view.panels[1].value = lastEvent.tab

C1_Witness ==
  /\ lastEvent.kind = "select"
  /\ lastEvent.tab = "resources"
  /\ lastEvent.from = "exercises"
  /\ Len(view.panels) = 1
  /\ view.panels[1].value = "resources"

\* C2: right after the Start Exercises button is clicked the active tab is
\* 'exercises' and the Exercises view is the visible one.
C2_StartExercisesShowsExercises ==
  (lastEvent.kind = "click" /\ lastEvent.button = StartExercisesButton)
    => /\ activeSection = "exercises"
       /\ Len(view.panels) = 1
       /\ view.panels[1].value = "exercises"
       /\ view.panels[1].heading = "Interactive Exercises"

C2_Witness ==
  /\ lastEvent.kind = "click"
  /\ lastEvent.button = StartExercisesButton
  /\ lastEvent.from = "overview"
  /\ activeSection = "exercises"
  /\ view.panels[1].value = "exercises"

\* C3: a click on View Source, on a per-exercise link button, on View Full
\* Document or on Download Examples appends exactly one window.open call,
\* with the literal URL of that button, and leaves the active tab, the lists
\* and the rendered tree unchanged.
C3_ExternalLinkOpensOnce ==
  [][ (/\ lastEvent'.kind = "click"
       /\ lastEvent'.button.name \in
            {"View Source", "ExternalLink", "View Full Document", "Download Examples"})
      => /\ Len(opened') = Len(opened) + 1
         /\ SubSeq(opened', 1, Len(opened)) = opened
         /\ opened'[Len(opened')].url =
              (IF lastEvent'.button.name \in {"View Source", "Download Examples"}
                 THEN "https://github.com/prabodh-dev1/programming-principles"
                 ELSE "https://github.com/prabodh-dev1/programming-principles/blob/main/README.md")
         /\ activeSection' = activeSection
         /\ principles' = principles
         /\ exercises' = exercises
         /\ view' = view ]_vars

C3_Witness ==
  /\ lastEvent.kind = "click"
  /\ lastEvent.button = DownloadExamplesButton
  /\ lastEvent.from = "exercises"
  /\ activeSection = "exercises"
  /\ Len(opened) >= 2
  /\ opened[Len(opened)].url = "https://github.com/prabodh-dev1/programming-principles"
  /\ opened[Len(opened) - 1].url =
       "https://github.com/prabodh-dev1/programming-principles/blob/main/README.md"

\* C4: right after the page is loaded or reloaded the active tab is
\* 'overview', whatever tab was active before.
C4_ReloadResetsToOverview ==
  lastEvent.kind \in {"load", "reload"}
    => /\ activeSection = "overview"
       /\ Len(view.panels) = 1
       /\ view.panels[1].value = "overview"

C4_Witness ==
  /\ lastEvent.kind = "reload"
  /\ lastEvent.from = "resources"
  /\ activeSection = "overview"

\* C5: in every reachable state the active tab is one of 'overview',
\* 'principles', 'exercises', 'resources'.
C5_ActiveSectionIsATab ==
  activeSection \in {"overview", "principles", "exercises", "resources"}

C5_Witness ==
  /\ activeSection = "resources"
  /\ opened # <<>>
  /\ lastEvent.kind = "select"
  /\ lastEvent.from = "exercises"

\* C6: the Principles view shows exactly four cards, for DRY, KISS, SRP and
\* SOLID in that order, each with the full name and the short name in its
\* title, the description, and the benefit labels of its record in the
\* record's order.
C6_PrinciplesViewShowsFourRecords ==
  activeSection = "principles"
    => /\ Len(view.panels) = 1
       /\ LET cards == view.panels[1].cards
          IN /\ Len(cards) = 4
             /\ [i \in 1..4 |-> cards[i].title] =
                  << "Don't Repeat Yourself (DRY)", "Keep It Simple, Stupid (KISS)",
                     "Single Responsibility Principle (SRP)", "SOLID Principles (SOLID)" >>
             /\ \A i \in 1..4 :
                   /\ cards[i].text = principles[i].description
                   /\ cards[i].benefits = principles[i].benefits
             /\ cards[1].benefits =
                  <<"Maintainability", "Readability", "Reduced Bugs", "Faster Development">>

C6_Witness ==
  /\ activeSection = "principles"
  /\ Len(view.panels[1].cards) = 4
  /\ view.panels[1].cards[1].title = "Don't Repeat Yourself (DRY)"
  /\ view.panels[1].cards[4].benefits =
       <<"Robustness", "Flexibility", "Maintainability", "Testability">>

\* C7: the Exercises view shows exactly six cards in list order, each with
\* the principle tag, the language label and the difficulty of its record as
\* badge texts, and the record's title.
C7_ExercisesViewShowsSixRecords ==
  activeSection = "exercises"
    => /\ Len(view.panels) = 1
       /\ LET cards == view.panels[1].cards
          IN /\ Len(cards) = 6
             /\ \A i \in 1..6 :
                   /\ cards[i].badges[1].text = exercises[i].principle
                   /\ cards[i].badges[2].text = exercises[i].language
                   /\ cards[i].badges[3].text = exercises[i].difficulty
                   /\ cards[i].title = exercises[i].title
             /\ [i \in 1..6 |-> cards[i].badges[1].text] =
                  <<"DRY", "DRY", "KISS", "KISS", "SRP", "SRP">>
             /\ cards[1].title = "Data Validation"
             /\ cards[1].badges[2].text = "Python"
             /\ cards[1].badges[3].text = "Beginner"

C7_Witness ==
  /\ activeSection = "exercises"
  /\ Len(view.panels[1].cards) = 6
  /\ view.panels[1].cards[1].title = "Data Validation"
  /\ view.panels[1].cards[6].badges[2].text = "Node.js/Next.js"
  /\ view.panels[1].cards[6].badges[3].text = "Intermediate"

\* C8: within one page load the active tab changes only in a step that is a
\* tab-trigger selection or a click on Start Exercises; a click that changes
\* it is a click on Start Exercises while Overview is shown; a click on any
\* other button leaves it unchanged.  (A reload starts a new page load.)
C8_OnlySelectionChangesTab ==
  [][ /\ (activeSection' # activeSection /\ lastEvent'.kind # "reload")
         => \/ lastEvent'.kind = "select"
            \/ /\ lastEvent'.kind = "click"
               /\ lastEvent'.button = StartExercisesButton
               /\ activeSection = "overview"
               /\ activeSection' = "exercises"
      /\ (lastEvent'.kind = "click" /\ lastEvent'.button # StartExercisesButton)
         => activeSection' = activeSection ]_vars

C8_Witness ==
  /\ lastEvent.kind = "click"
  /\ lastEvent.button = ViewSourceButton
  /\ lastEvent.from = "principles"
  /\ activeSection = "principles"

\* C9: in every state each of the four tabs can be selected and selecting it
\* makes it the active tab; right after a selection the active tab is the
\* selected one, whatever tab was active before.
C9_EverySelectionIsValid ==
  /\ \A v \in {"overview", "principles", "exercises", "resources"} :
        ENABLED (SelectTab(v) /\ activeSection' = v)
  /\ lastEvent.kind = "select"
       => /\ activeSection = lastEvent.tab
          /\ activeSection \in {"overview", "principles", "exercises", "resources"}
          /\ Len(view.panels) = 1

C9_Witness ==
  /\ lastEvent.kind = "select"
  /\ lastEvent.from = "resources"
  /\ lastEvent.tab = "overview"
  /\ activeSection = "overview"

\* C10: a tab selection issues no window.open call and changes nothing but
\* the active tab and what the tab strip and the panel show for it.
C10_SelectionHasNoSideEffect ==
  [][ lastEvent'.kind = "select"
      => /\ opened' = opened
         /\ principles' = principles
         /\ exercises' = exercises
         /\ view'.header = view.header
         /\ [i \in DOMAIN view'.triggers |-> view'.triggers[i].label]
              = [i \in DOMAIN view.triggers |-> view.triggers[i].label]
         /\ activeSection' = lastEvent'.tab ]_vars

C10_Witness ==
  /\ lastEvent.kind = "select"
  /\ lastEvent.tab = "resources"
  /\ lastEvent.from = "exercises"
  /\ activeSection = "resources"
  /\ Len(opened) = 1

\* C11: every window.open call the page has made targets the repository URL
\* or the README URL and names the target '_blank'; no other URL is passed.
C11_OnlyTwoUrlsInNewContext ==
  \A i \in DOMAIN opened :
     /\ opened[i].url \in
          { "https://github.com/prabodh-dev1/programming-principles",
            "https://github.com/prabodh-dev1/programming-principles/blob/main/README.md" }
     /\ opened[i].target = "_blank"

C11_Witness ==
  /\ Len(opened) >= 2
  /\ \E i, j \in DOMAIN opened :
        /\ opened[i].url = "https://github.com/prabodh-dev1/programming-principles"
        /\ opened[j].url =
             "https://github.com/prabodh-dev1/programming-principles/blob/main/README.md"
        /\ opened[i].target = "_blank"
        /\ opened[j].target = "_blank"
  /\ lastEvent.button = ViewFullDocumentButton

\* C12: when window.open returns null (blocked pop-up) the click that made
\* the call has made exactly that one call, the active tab and the rendered
\* tree are unchanged, and the button is still in the tree to be clicked
\* again.
C12_BlockedOpenIsIgnored ==
  [][ (/\ lastEvent'.kind = "click"
       /\ Len(opened') > Len(opened)
       /\ opened'[Len(opened')].returned = "null")
      => /\ Len(opened') = Len(opened) + 1
         /\ SubSeq(opened', 1, Len(opened)) = opened
         /\ activeSection' = activeSection
         /\ view' = view
         /\ lastEvent'.button \in Buttons(view') ]_vars

C12_Witness ==
  /\ Len(opened) = 2
  /\ opened[1].returned = "null"
  /\ opened[2].returned = "window"
  /\ opened[1].url = opened[2].url
  /\ lastEvent.kind = "click"
  /\ lastEvent.button = ViewFullDocumentButton
  /\ activeSection = "exercises"

\* C13: in every reachable state the tab strip shows the four triggers
\* Overview, Principles, Exercises, Resources in that order, none disabled,
\* and each of the four views can be made the visible one by one selection.
C13_AllTabsAlwaysSelectable ==
  /\ [i \in DOMAIN view.triggers |-> view.triggers[i].label]
       = <<"Overview", "Principles", "Exercises", "Resources">>
  /\ [i \in DOMAIN view.triggers |-> view.triggers[i].value]
       = <<"overview", "principles", "exercises", "resources">>
  /\ \A i \in DOMAIN view.triggers : ~view.triggers[i].disabled
  /\ \A v \in {"overview", "principles", "exercises", "resources"} :
        ENABLED (/\ SelectTab(v)
                 /\ Len(view'.panels) = 1
                 /\ view'.panels[1].value = v)

C13_Witness ==
  /\ lastEvent.kind = "select"
  /\ lastEvent.from = "principles"
  /\ lastEvent.tab = "resources"
  /\ view.triggers[4].label = "Resources"
  /\ view.triggers[4].state = "active"
  /\ ~view.triggers[1].disabled
  /\ Len(opened) = MaxOpens

\* C14 as stated: every text rendered in an Overview, Principles or Exercises
\* card is the unmodified value of one field of the card's record.
C14_EveryFieldIsADirectRead ==
  (activeSection \in {"overview", "principles", "exercises"} /\ Len(view.panels) = 1)
    => \A i \in DOMAIN view.panels[1].cards :
          LET c == view.panels[1].cards[i]
          IN IF activeSection = "exercises"
               THEN LET e == exercises[i]
                        F == {e.principle, e.title, e.language, e.scenario, e.difficulty}
                    IN /\ c.title \in F
                       /\ c.text \in F
                       /\ \A k \in DOMAIN c.badges : c.badges[k].text \in F
               ELSE LET p == principles[i]
                        F == {p.id, p.name, p.fullName, p.description}
                    IN /\ c.title \in F
                       /\ c.description \in F
                       /\ c.text \in F
                       /\ \A k \in DOMAIN c.benefits :
                             c.benefits[k] \in {p.benefits[j] : j \in DOMAIN p.benefits}

\* C14 (amended): each card rendered from a principle or exercise record
\* shows the record's fields unmodified, one field per slot, with these
\* exceptions: the title of a Principles card is 'fullName (name)', built
\* from two fields; its label is 'Essential principle #n', n the card's
\* 1-based position, read from no field; the variant of the difficulty badge
\* is computed from the difficulty ('default' for 'Beginner', 'destructive'
\* otherwise).  Everything else a card shows is a literal of the markup, the
\* same in every card of the view: 'Key Benefits:' in Overview cards, the two
\* headings and the four application lines in Principles cards, nothing in
\* Exercises cards; so are the two call-to-action cards.  A card has no other
\* slot, and there is one card per record.
C14_FieldsAreReadsOrInterpolations ==
  (activeSection \in {"overview", "principles", "exercises"} /\ Len(view.panels) = 1)
    => /\ Len(view.panels[1].cards) =
            (IF activeSection = "exercises" THEN Len(exercises) ELSE Len(principles))
       /\ view.panels[1].callToAction =
            (CASE activeSection = "overview" ->
                    << [title |-> "Ready to Start Learning?",
                        text  |-> "Explore interactive exercises with real-world e-commerce scenarios",
                        buttons |-> <<StartExercisesButton>>] >>
               [] activeSection = "principles" -> <<>>
               [] activeSection = "exercises" ->
                    << [title |-> "Complete Exercise Collection",
                        text  |-> "Access the full document with detailed explanations, code examples, and solutions",
                        buttons |-> <<ViewFullDocumentButton, DownloadExamplesButton>>] >>)
       /\ \A i \in DOMAIN view.panels[1].cards :
          LET c == view.panels[1].cards[i]
          IN CASE activeSection = "overview" ->
                    /\ DOMAIN c = {"key", "color", "icon", "title", "description",
                                   "text", "labels", "benefits"}
                    /\ c.key = principles[i].id
                    /\ c.color = principles[i].color
                    /\ c.icon = principles[i].icon
                    /\ c.title = principles[i].name
                    /\ c.description = principles[i].fullName
                    /\ c.text = principles[i].description
                    /\ c.benefits = principles[i].benefits
                    /\ c.labels = <<"Key Benefits:">>
               [] activeSection = "principles" ->
                    /\ DOMAIN c = {"key", "color", "icon", "title", "description",
                                   "text", "labels", "benefits", "applications"}
                    /\ c.key = principles[i].id
                    /\ c.color = principles[i].color
                    /\ c.icon = principles[i].icon
                    /\ c.title = principles[i].fullName \o " (" \o principles[i].name \o ")"
                    /\ c.title \notin {principles[i].fullName, principles[i].name}
                    /\ c.description =
                         << "Essential principle #1", "Essential principle #2",
                            "Essential principle #3", "Essential principle #4" >>[i]
                    /\ c.text = principles[i].description
                    /\ c.benefits = principles[i].benefits
                    /\ c.labels = <<"Key Benefits", "E-commerce Applications">>
                    /\ c.applications =
                         << [prefix |-> <<8226, 32>>, text |-> "User management systems"],
                            [prefix |-> <<8226, 32>>, text |-> "Product catalog handling"],
                            [prefix |-> <<8226, 32>>, text |-> "Order processing workflows"],
                            [prefix |-> <<8226, 32>>, text |-> "Payment gateway integration"] >>
               [] activeSection = "exercises" ->
                    /\ DOMAIN c = {"key", "badges", "button", "title", "text"}
                    /\ c.key = i - 1
                    /\ c.button = ExerciseLinkButton(i - 1)
                    /\ Len(c.badges) = 3
                    /\ c.badges[1] = [variant |-> "outline", text |-> exercises[i].principle]
                    /\ c.badges[2] = [variant |-> "secondary", text |-> exercises[i].language]
                    /\ c.badges[3].text = exercises[i].difficulty
                    /\ c.badges[3].variant =
                         (IF exercises[i].difficulty = "Beginner" THEN "default" ELSE "destructive")
                    /\ c.title = exercises[i].title
                    /\ c.text = exercises[i].scenario

C14_Witness ==
  /\ activeSection = "principles"
  /\ Len(view.panels) = 1
  /\ view.panels[1].cards[2].title = "Keep It Simple, Stupid (KISS)"
  /\ view.panels[1].cards[2].description = "Essential principle #2"
  /\ view.panels[1].cards[2].text = principles[2].description
  /\ view.panels[1].cards[2].labels = <<"Key Benefits", "E-commerce Applications">>
  /\ view.panels[1].cards[2].applications[1] =
       [prefix |-> <<8226, 32>>, text |-> "User management systems"]

\* C15: no step changes the principle list or the exercise list: after any
\* sequence of selections, Start Exercises clicks and link clicks both lists
\* have the records, fields and order they had at page load (four and six
\* records).
C15_ListsNeverMutated ==
  [][ /\ principles' = principles
      /\ exercises' = exercises
      /\ Len(principles') = 4
      /\ Len(exercises') = 6 ]_vars

C15_Witness ==
  /\ lastEvent.kind = "click"
  /\ lastEvent.button = StartExercisesButton
  /\ \E i \in DOMAIN opened :
        opened[i].url = "https://github.com/prabodh-dev1/programming-principles/blob/main/README.md"
  /\ [i \in DOMAIN principles |-> principles[i].name] = <<"DRY", "KISS", "SRP", "SOLID">>
  /\ Len(exercises) = 6

\* C16: every step is the complete effect of exactly one handler.  After it
\* exactly one panel is mounted and exactly one trigger is active, both for
\* the new active tab (no selection is half applied); the active tab is
\* either untouched or the one value that step's event writes; and no step
\* both writes the active tab and calls window.open, or makes two calls.
C16_HandlersAreAtomicSteps ==
  [][ /\ Len(view'.panels) = 1
      /\ view'.panels[1].value = activeSection'
      /\ { i \in DOMAIN view'.triggers : view'.triggers[i].state = "active" }
           = { i \in DOMAIN view'.triggers : view'.triggers[i].value = activeSection' }
      /\ Cardinality({ i \in DOMAIN view'.triggers : view'.triggers[i].state = "active" }) = 1
      /\ activeSection' =
           (CASE lastEvent'.kind = "select" -> lastEvent'.tab
              [] lastEvent'.kind = "reload" -> "overview"
              [] lastEvent'.kind = "click" /\ lastEvent'.button = StartExercisesButton
                   -> "exercises"
              [] OTHER -> activeSection)
      /\ lastEvent'.from = activeSection
      /\ \/ opened' = opened
         \/ /\ Len(opened') = Len(opened) + 1
            /\ activeSection' = activeSection
            /\ view' = view ]_vars

C16_Witness ==
  /\ lastEvent.kind = "select"
  /\ lastEvent.from = "exercises"
  /\ lastEvent.tab = "principles"
  /\ Len(opened) >= 2
  /\ Len(view.panels) = 1
  /\ view.panels[1].value = "principles"
  /\ view.triggers[2].state = "active"
  /\ view.triggers[3].state = "inactive"

\* C17: the active tab is the target of the most recent tab-changing event
\* since the last load (the selected trigger's value, or 'exercises' for
\* Start Exercises), or 'overview' if there has been none, however many
\* links were opened since and whatever was selected before.
C17_ActiveTabIsLastTarget ==
  activeSection = (IF lastEvent.lastTarget = "none" THEN "overview" ELSE lastEvent.lastTarget)

C17_Witness ==
  /\ lastEvent.kind = "click"
  /\ lastEvent.button = DownloadExamplesButton
  /\ lastEvent.lastTarget = "exercises"
  /\ activeSection = "exercises"
  /\ Len(opened) = 3
  /\ opened[1].url = "https://github.com/prabodh-dev1/programming-principles"
  /\ opened[2].url = "https://github.com/prabodh-dev1/programming-principles/blob/main/README.md"

\* C18: the Start Exercises button is in the rendered tree, and can be
\* clicked, exactly while the active tab is 'overview'; a click on it always
\* goes from 'overview' to 'exercises'; while another tab is active no button
\* click can change the active tab.
C18_StartExercisesOnlyInOverview ==
  /\ (StartExercisesButton \in Buttons(view)) <=> (activeSection = "overview")
  /\ (ENABLED StartExercises) <=> (activeSection = "overview")
  /\ (lastEvent.kind = "click" /\ lastEvent.button = StartExercisesButton)
       => (lastEvent.from = "overview" /\ activeSection = "exercises")
  /\ activeSection \in {"principles", "exercises", "resources"}
       => ~ENABLED (/\ \/ StartExercises
                       \/ ViewSource
                       \/ \E index \in 0..(Len(exercises) - 1) : ExerciseLink(index)
                       \/ ViewFullDocument
                       \/ DownloadExamples
                    /\ activeSection' # activeSection)

C18_Witness ==
  /\ lastEvent.kind = "click"
  /\ lastEvent.button = StartExercisesButton
  /\ lastEvent.from = "overview"
  /\ activeSection = "exercises"
  /\ StartExercisesButton \notin Buttons(view)
  /\ opened # <<>>

\* C19: the View Source button is in the rendered tree in every state and
\* can be clicked in any of the four tab states; the six per-exercise link
\* buttons, View Full Document and Download Examples are in the tree, and can
\* be clicked, only while the active tab is 'exercises'; so a call with the
\* README URL is only ever made while 'exercises' is active.
C19_LinkButtonsPerView ==
  /\ ViewSourceButton \in Buttons(view)
  /\ Len(opened) < MaxOpens => ENABLED ViewSource
  /\ \A b \in {ViewFullDocumentButton, DownloadExamplesButton}
               \cup { ExerciseLinkButton(i) : i \in 0..5 } :
        (b \in Buttons(view)) <=> (activeSection = "exercises")
  /\ (ENABLED (\/ \E index \in 0..5 : ExerciseLink(index)
               \/ ViewFullDocument
               \/ DownloadExamples))
       => activeSection = "exercises"
  /\ (/\ lastEvent.kind = "click"
      /\ lastEvent.button # StartExercisesButton
      /\ opened # <<>>
      /\ opened[Len(opened)].url =
           "https://github.com/prabodh-dev1/programming-principles/blob/main/README.md")
       => lastEvent.from = "exercises"

C19_Witness ==
  /\ lastEvent.kind = "click"
  /\ lastEvent.button = ViewSourceButton
  /\ lastEvent.from = "resources"
  /\ Len(opened) = 2
  /\ opened[1].url = "https://github.com/prabodh-dev1/programming-principles/blob/main/README.md"
  /\ opened[2].url = "https://github.com/prabodh-dev1/programming-principles"
  /\ ViewFullDocumentButton \notin Buttons(view)

\* C20: right after a click on a link button the latest window.open call has
\* the URL fixed for that button: the repository URL for View Source and
\* Download Examples, the README URL for View Full Document and for each of
\* the six per-exercise buttons whatever its card, whatever tab was active
\* and whatever was opened before.
C20_ButtonUrlMappingIsFixed ==
  (lastEvent.kind = "click" /\ lastEvent.button # StartExercisesButton)
    => /\ opened # <<>>
       /\ lastEvent.button.name \in
            {"View Source", "Download Examples", "View Full Document", "ExternalLink"}
       /\ lastEvent.button.name \in {"View Source", "Download Examples"}
            => opened[Len(opened)].url =
                 "https://github.com/prabodh-dev1/programming-principles"
       /\ lastEvent.button.name \in {"View Full Document", "ExternalLink"}
            => opened[Len(opened)].url =
                 "https://github.com/prabodh-dev1/programming-principles/blob/main/README.md"

C20_Witness ==
  /\ lastEvent.kind = "click"
  /\ lastEvent.button = ExerciseLinkButton(5)
  /\ Len(opened) = 2
  /\ opened[1].url = "https://github.com/prabodh-dev1/programming-principles"
  /\ opened[2].url = "https://github.com/prabodh-dev1/programming-principles/blob/main/README.md"

\* C21: selecting the tab that is already active changes nothing of the page
\* (active tab, lists, rendered tree, window.open calls); so a second
\* selection of the same tab right after the first, and a selection of
\* 'exercises' right after Start Exercises, leave the page as the first
\* event left it.
C21_ReselectionIsIdempotent ==
  [][ /\ (lastEvent'.kind = "select" /\ lastEvent'.tab = activeSection)
         => /\ activeSection' = activeSection
            /\ principles' = principles
            /\ exercises' = exercises
            /\ view' = view
            /\ opened' = opened
      /\ (/\ lastEvent'.kind = "select"
          /\ \/ lastEvent.kind = "select" /\ lastEvent.tab = lastEvent'.tab
             \/ /\ lastEvent.kind = "click"
                /\ lastEvent.button = StartExercisesButton
                /\ lastEvent'.tab = "exercises")
         => /\ activeSection' = activeSection
            /\ view' = view
            /\ opened' = opened ]_vars

C21_Witness ==
  /\ lastEvent.kind = "select"
  /\ lastEvent.tab = "exercises"
  /\ lastEvent.from = "exercises"
  /\ activeSection = "exercises"
  /\ Len(view.panels) = 1
  /\ view.panels[1].value = "exercises"
  /\ opened = <<>>

\* C22: the variant of the difficulty badge is 'default' exactly for the
\* difficulty 'Beginner' and 'destructive' for any other value (another
\* level, another spelling, the empty string); in the Exercises view the two
\* DRY cards get 'default' and the four KISS and SRP cards 'destructive'.
C22_DifficultyVariantRule ==
  /\ \A d \in {"Beginner", "Intermediate", "Advanced", "beginner", "BEGINNER", ""} :
        /\ (DifficultyVariant(d) = "default") <=> (d = "Beginner")
        /\ (DifficultyVariant(d) = "destructive") <=> (d # "Beginner")
  /\ (activeSection = "exercises" /\ Len(view.panels) = 1)
       => LET cards == view.panels[1].cards
          IN /\ \A i \in DOMAIN cards :
                   (cards[i].badges[3].variant = "default")
                     <=> (exercises[i].difficulty = "Beginner")
             /\ [i \in DOMAIN cards |-> <<cards[i].badges[1].text, cards[i].badges[3].variant>>]
                  = << <<"DRY", "default">>,      <<"DRY", "default">>,
                       <<"KISS", "destructive">>, <<"KISS", "destructive">>,
                       <<"SRP", "destructive">>,  <<"SRP", "destructive">> >>

C22_Witness ==
  /\ activeSection = "exercises"
  /\ Len(view.panels) = 1
  /\ view.panels[1].cards[2].badges[3] = [variant |-> "default", text |-> "Beginner"]
  /\ view.panels[1].cards[3].badges[3] = [variant |-> "destructive", text |-> "Intermediate"]

\* C23: in the Principles view the card at 0-based position i carries the
\* label 'Essential principle #(i+1)': #1 for DRY, #2 for KISS, #3 for SRP,
\* #4 for SOLID, each number once; its title is the full name followed by the
\* short name in parentheses.
C23_PrincipleCardLabels ==
  (activeSection = "principles" /\ Len(view.panels) = 1)
    => LET cards == view.panels[1].cards
       IN /\ [i \in DOMAIN cards |-> <<principles[i].name, cards[i].description>>]
               = << <<"DRY", "Essential principle #1">>, <<"KISS", "Essential principle #2">>,
                    <<"SRP", "Essential principle #3">>, <<"SOLID", "Essential principle #4">> >>
          /\ \A i, j \in DOMAIN cards :
                cards[i].description = cards[j].description => i = j
          /\ \A i \in DOMAIN cards :
                cards[i].title = principles[i].fullName \o " (" \o principles[i].name \o ")"
          /\ cards[3].title = "Single Responsibility Principle (SRP)"

C23_Witness ==
  /\ activeSection = "principles"
  /\ Len(view.panels) = 1
  /\ view.panels[1].cards[4].description = "Essential principle #4"
  /\ view.panels[1].cards[4].title = "SOLID Principles (SOLID)"
  /\ view.panels[1].cards[1].description = "Essential principle #1"

\* C24: the Overview view and the Principles view show the same principle
\* list: whenever one is replaced by the other, the two rendered card lists
\* have the same four records in the same order, and card by card the same
\* short name and full name (as title and subtitle in Overview, joined in the
\* title in Principles), the same description and the same benefit labels in
\* the same order.
C24_OverviewAndPrinciplesAgree ==
  [][ ({activeSection, activeSection'} = {"overview", "principles"})
      => LET o == IF activeSection = "overview"
                    THEN view.panels[1].cards ELSE view'.panels[1].cards
             p == IF activeSection = "principles"
                    THEN view.panels[1].cards ELSE view'.panels[1].cards
         IN /\ Len(o) = 4
            /\ Len(p) = 4
            /\ [i \in 1..4 |-> o[i].title] = <<"DRY", "KISS", "SRP", "SOLID">>
            /\ \A i \in 1..4 :
                  /\ o[i].key = p[i].key
                  /\ p[i].title = o[i].description \o " (" \o o[i].title \o ")"
                  /\ o[i].text = p[i].text
                  /\ o[i].benefits = p[i].benefits ]_vars

C24_Witness ==
  /\ lastEvent.kind = "select"
  /\ lastEvent.from = "principles"
  /\ lastEvent.tab = "overview"
  /\ Len(view.panels) = 1
  /\ Len(view.panels[1].cards) = 4
  /\ view.panels[1].cards[2].title = "KISS"
  /\ view.panels[1].cards[2].description = "Keep It Simple, Stupid"
  /\ view.panels[1].cards[2].benefits =
       <<"Readability", "Reduced Bugs", "Faster Development", "Easier Maintenance">>

\* C25: every exercise's principle tag is the short name of one of the four
\* principle records; DRY, KISS and SRP are each the tag of exactly two
\* exercises and no exercise is tagged SOLID.
C25_ExerciseTagsNamePrinciples ==
  /\ \A i \in DOMAIN exercises :
        \E j \in DOMAIN principles : exercises[i].principle = principles[j].name
  /\ \A n \in {"DRY", "KISS", "SRP"} :
        Cardinality({ i \in DOMAIN exercises : exercises[i].principle = n }) = 2
  /\ { i \in DOMAIN exercises : exercises[i].principle = "SOLID" } = {}
  /\ \E j \in DOMAIN principles : principles[j].name = "SOLID"

C25_Witness ==
  /\ activeSection = "exercises"
  /\ Len(exercises) = 6
  /\ exercises[6].principle = "SRP"
  /\ principles[3].name = "SRP"
  /\ view.panels[1].cards[6].badges[1].text = "SRP"

====
